---- MODULE Spec2Model ----
(***************************************************************************)
(* Model of src/debug_helper/pytest_raise_plugin.py, the pytest plugin     *)
(* that re-raises captured exceptions when _PYTEST_RAISE is set.           *)
(*                                                                         *)
(* State: the process environment, the plugin module's namespace (the hook *)
(* implementations its body has defined), the standard error stream, and a *)
(* history of the operations performed (module loads and host events).     *)
(* Operations: executing the module body (Load), the two hook bodies, the  *)
(* host firing its two events, and the environment being changed.          *)
(***************************************************************************)
EXTENDS Integers, Sequences, FiniteSets, TLC

VARIABLES environ, hooks, stderr, history, envChangedSinceLoad

vars == <<environ, hooks, stderr, history, envChangedSinceLoad>>

\* Bound on the number of loads and host events in one behaviour.
MaxOps == 3

-----------------------------------------------------------------------------
\* Values

Flag == "_PYTEST_RAISE"

\* The strings the flag is given in the model: "0", the usual "1", and the
\* near-misses of "0" and of a falsy word.
EnvValues == {"0", "1", "", "00", " 0", "false", "no"}

NoEnviron == [k \in {} |-> ""]

SetTo(v) == [k \in {Flag} |-> v]

Environs == {NoEnviron} \cup {SetTo(v) : v \in EnvValues}

\* Python's None, and the exception objects the host captures.  Two objects
\* of one type are different objects: identity is the id field.
NoneValue == [id |-> 0, type |-> "NoneType"]

ExceptionObjects ==
    { [id |-> 1, type |-> "ValueError"],
      [id |-> 2, type |-> "ValueError"],
      [id |-> 3, type |-> "KeyError"] }

\* The host's ExceptionInfo wrapper of a captured exception object.
ExcInfo(e) == [type |-> e.type, value |-> e]

ExcInfos == { ExcInfo(e) : e \in ExceptionObjects }

\* The call record of an exception-interaction event.
CallRecords == { [excinfo |-> x] : x \in ExcInfos \cup {NoneValue} }

\* `if call.excinfo:` -- None is falsy, an ExceptionInfo object is truthy.
Truthy(x) == x # NoneValue

Msg(text, arg) == [text |-> text, arg |-> arg]

NoReturn == "<raised>"

Self == "pytest_raise_plugin"

-----------------------------------------------------------------------------
\* Module body

\* Variant: the default is dropped, so an unset variable reads as "None".
getenv_nodefault(e, key, default) == IF key \in DOMAIN e THEN e[key] ELSE "None"

\* os.getenv(key, default)
getenv(e, key, default) == IF key \in DOMAIN e THEN e[key] ELSE default

\* Variant: the flag is tested for truthiness as well, so "" is inactive.
IsActiveTruthy(e) == getenv(e, Flag, "0") \notin {"0", ""}

\* The test of the module-level `if`.
IsActive(e) == getenv(e, Flag, "0") # "0"

\* Variant: the hook is registered without tryfirst.
ExceptionInteractImplNotFirst ==
    [name |-> "pytest_exception_interact", plugin |-> Self, tryfirst |-> FALSE]

\* @pytest.hookimpl(tryfirst=True) def pytest_exception_interact
ExceptionInteractImpl ==
    [name |-> "pytest_exception_interact", plugin |-> Self, tryfirst |-> TRUE]

\* @pytest.hookimpl(tryfirst=True) def pytest_internalerror
InternalErrorImpl ==
    [name |-> "pytest_internalerror", plugin |-> Self, tryfirst |-> TRUE]

\* The messages of one execution of the module body, in the order written.
LoadMessages(e) ==
    << Msg("File execution started.", ""),
       Msg("Checking _PYTEST_RAISE. Value:", getenv(e, Flag, "0")) >>
    \o ( IF IsActive(e)
           THEN << Msg("Hooks activated (_PYTEST_RAISE is set).", "") >>
           ELSE << Msg("Loaded but hooks inactive (_PYTEST_RAISE not set).", "") >> )

\* The names one execution of the module body binds: the two def statements
\* of the if-branch; the else-branch binds nothing.
Defined(e) == IF IsActive(e) THEN {ExceptionInteractImpl, InternalErrorImpl} ELSE {}

\* Variant: the module body consumes the flag once it has activated the hooks.
LoadConsumesFlag ==
    /\ Len(history) < MaxOps
    /\ hooks' = hooks \cup Defined(environ)
    /\ stderr' = stderr \o LoadMessages(environ)
    /\ history' = Append(history,
                         [op |-> "load", environ |-> environ,
                          defined |-> Defined(environ),
                          out |-> LoadMessages(environ)])
    /\ envChangedSinceLoad' = FALSE
    /\ environ' = IF IsActive(environ) THEN NoEnviron ELSE environ

\* The module body is executed in the module's namespace: a def statement binds
\* (or rebinds) its name there, and names bound by an earlier execution stay.
Load ==
    /\ Len(history) < MaxOps
    /\ hooks' = hooks \cup Defined(environ)
    /\ stderr' = stderr \o LoadMessages(environ)
    /\ history' = Append(history,
                         [op |-> "load", environ |-> environ,
                          defined |-> Defined(environ),
                          out |-> LoadMessages(environ)])
    /\ envChangedSinceLoad' = FALSE
    /\ UNCHANGED environ

-----------------------------------------------------------------------------
\* Hook bodies.  Each returns what it wrote to stderr, the exception object it
\* raised (NoneValue when it returned) and its return value.

\* Variant: a new exception of the same type is raised instead of the captured one.
pytest_exception_interact_copy(call) ==
    LET intercept == << Msg("Intercepting exception interact hook.", "") >> IN
    IF Truthy(call.excinfo)
      THEN [out |-> intercept \o << Msg("Re-raising exception:", call.excinfo.type) >>,
            raised |-> [id |-> call.excinfo.value.id + 100, type |-> call.excinfo.type],
            ret |-> NoReturn]
      ELSE [out |-> intercept, raised |-> NoneValue, ret |-> "False"]

\* Variant: the `if call.excinfo:` guard is missing, so a call record without
\* exception information fails on the attribute access.
pytest_exception_interact_noguard(call) ==
    LET intercept == << Msg("Intercepting exception interact hook.", "") >> IN
    IF Truthy(call.excinfo)
      THEN [out |-> intercept \o << Msg("Re-raising exception:", call.excinfo.type) >>,
            raised |-> call.excinfo.value,
            ret |-> NoReturn]
      ELSE [out |-> intercept,
            raised |-> [id |-> 100, type |-> "AttributeError"],
            ret |-> NoReturn]

\* Variant: the hook body reads the flag again at each call.
pytest_exception_interact_rereads(call) ==
    LET intercept == << Msg("Intercepting exception interact hook.", "") >> IN
    IF Truthy(call.excinfo) /\ getenv(environ, Flag, "0") # "0"
      THEN [out |-> intercept \o << Msg("Re-raising exception:", call.excinfo.type) >>,
            raised |-> call.excinfo.value,
            ret |-> NoReturn]
      ELSE [out |-> intercept, raised |-> NoneValue, ret |-> "False"]

\* Variant: the hook re-raises once only, and reports not-handled afterwards.
pytest_exception_interact_oneshot(call) ==
    LET intercept == << Msg("Intercepting exception interact hook.", "") >>
        fired == \E i \in DOMAIN history :
                    history[i].op = "event" /\ history[i].raised # NoneValue
    IN
    IF Truthy(call.excinfo) /\ ~fired
      THEN [out |-> intercept \o << Msg("Re-raising exception:", call.excinfo.type) >>,
            raised |-> call.excinfo.value,
            ret |-> NoReturn]
      ELSE [out |-> intercept, raised |-> NoneValue, ret |-> "False"]

pytest_exception_interact(call) ==
    LET intercept == << Msg("Intercepting exception interact hook.", "") >> IN
    IF Truthy(call.excinfo)
      THEN [out |-> intercept \o << Msg("Re-raising exception:", call.excinfo.type) >>,
            raised |-> call.excinfo.value,
            ret |-> NoReturn]
      ELSE [out |-> intercept, raised |-> NoneValue, ret |-> "False"]

\* Variant: the internal error is re-raised only once a test exception was seen.
pytest_internalerror_guarded(excinfo) ==
    LET intercept == << Msg("Intercepting internal error hook.", "") >>
        seen == \E i \in DOMAIN history :
                   /\ history[i].op = "event"
                   /\ history[i].hook = "pytest_exception_interact"
                   /\ history[i].excinfo # NoneValue
    IN
    IF seen
      THEN [out |-> intercept \o << Msg("Re-raising internal error:", excinfo.type) >>,
            raised |-> excinfo.value,
            ret |-> NoReturn]
      ELSE [out |-> intercept, raised |-> NoneValue, ret |-> "None"]

\* Variant: the message announcing the re-raise is not written.
pytest_internalerror_silent(excinfo) ==
    [out |-> << Msg("Intercepting internal error hook.", "") >>,
     raised |-> excinfo.value,
     ret |-> NoReturn]

pytest_internalerror(excinfo) ==
    [out |-> << Msg("Intercepting internal error hook.", ""),
                Msg("Re-raising internal error:", excinfo.type) >>,
     raised |-> excinfo.value,
     ret |-> NoReturn]

-----------------------------------------------------------------------------
\* Host: the handlers registered for an event and the order they are called in.

\* The handlers other plugins register for each event: one that asks to run
\* first as well, and one without priority.  They handle nothing: each returns
\* None and raises nothing.
OtherImpls(name) ==
    { [name |-> name, plugin |-> "other_first", tryfirst |-> TRUE],
      [name |-> name, plugin |-> "other", tryfirst |-> FALSE] }

Handlers(name) == { h \in hooks : h.name = name } \cup OtherImpls(name)

\* The orders the host may call the handlers of an event in: a handler declared
\* to run first precedes every handler that is not; the order among handlers of
\* one priority is the host's.
CallOrders(name) ==
    LET H == Handlers(name)
        n == Cardinality(H)
    IN { s \in [1..n -> H] :
           /\ \A i, j \in 1..n : i # j => s[i] # s[j]
           /\ \A i, j \in 1..n : (s[i].tryfirst /\ ~s[j].tryfirst) => i < j }

\* What one handler does with the event's argument.
CallImpl(h, arg) ==
    IF h.plugin = Self
      THEN IF h.name = "pytest_exception_interact"
             THEN pytest_exception_interact(arg)
             ELSE pytest_internalerror(arg)
      ELSE [out |-> << >>, raised |-> NoneValue, ret |-> "None"]

\* The host calls the handlers in order; a handler that raises ends the call,
\* and the handlers after it are not called.
RECURSIVE Dispatch(_, _, _)
Dispatch(order, arg, acc) ==
    IF order = << >> THEN acc
    ELSE LET h == Head(order)
             r == CallImpl(h, arg)
             acc2 == [called  |-> Append(acc.called, h.plugin),
                      results |-> IF r.raised = NoneValue
                                    THEN Append(acc.results, r.ret)
                                    ELSE acc.results,
                      raised  |-> r.raised,
                      out     |-> acc.out \o r.out]
         IN IF r.raised # NoneValue THEN acc2 ELSE Dispatch(Tail(order), arg, acc2)

NothingCalled == [called |-> << >>, results |-> << >>, raised |-> NoneValue, out |-> << >>]

\* One host event: the record kept of it in the history.
EventRecord(name, excinfo, order, arg) ==
    LET d == Dispatch(order, arg, NothingCalled) IN
    [op |-> "event", hook |-> name, excinfo |-> excinfo,
     registered |-> (\E h \in hooks : h.name = name),
     called |-> d.called, results |-> d.results, raised |-> d.raised, out |-> d.out]

\* The host reports that a test produced an exception.
ExceptionInteractEvent ==
    /\ Len(history) < MaxOps
    /\ \E call \in CallRecords, order \in CallOrders("pytest_exception_interact") :
         LET r == EventRecord("pytest_exception_interact", call.excinfo, order, call) IN
           /\ history' = Append(history, r)
           /\ stderr' = stderr \o r.out
    /\ UNCHANGED <<environ, hooks, envChangedSinceLoad>>

\* The host reports a failure of its own.
InternalErrorEvent ==
    /\ Len(history) < MaxOps
    /\ \E x \in ExcInfos, order \in CallOrders("pytest_internalerror") :
         LET r == EventRecord("pytest_internalerror", x, order, x) IN
           /\ history' = Append(history, r)
           /\ stderr' = stderr \o r.out
    /\ UNCHANGED <<environ, hooks, envChangedSinceLoad>>

-----------------------------------------------------------------------------
\* The process environment, changed from outside the plugin.

SetEnv ==
    \E v \in EnvValues :
      /\ environ' = SetTo(v)
      /\ envChangedSinceLoad' = (envChangedSinceLoad \/ environ' # environ)
      /\ UNCHANGED <<hooks, stderr, history>>

UnsetEnv ==
    /\ environ' = NoEnviron
    /\ envChangedSinceLoad' = (envChangedSinceLoad \/ environ' # environ)
    /\ UNCHANGED <<hooks, stderr, history>>

-----------------------------------------------------------------------------

Init ==
    /\ environ \in Environs
    /\ hooks = {}
    /\ stderr = << >>
    /\ history = << >>
    /\ envChangedSinceLoad = FALSE

Next ==
    \/ Load
    \/ ExceptionInteractEvent
    \/ InternalErrorEvent
    \/ SetEnv
    \/ UnsetEnv

Spec == Init /\ [][Next]_vars

-----------------------------------------------------------------------------
\* Vocabulary of the properties, stated on the history and on stderr.

ExcInteract == "pytest_exception_interact"

IntError == "pytest_internalerror"

Loads == { i \in DOMAIN history : history[i].op = "load" }

Events == { i \in DOMAIN history : history[i].op = "event" }

\* The flag values that activate the plugin: set, and not the string "0".
ActiveValue(e) == Flag \in DOMAIN e /\ e[Flag] # "0"

\* The plugin was loaded in Active mode before the i-th operation.
ActiveLoadBefore(i) ==
    \E j \in Loads : j < i /\ ActiveValue(history[j].environ)

\* The event carries an exception the plugin is to re-raise.
Qualifying(r) == r.hook = IntError \/ r.excinfo # NoneValue

\* The plugin's hook was called and it ended the event by raising e.
ReraisedBySelf(r, e) ==
    /\ r.raised = e
    /\ r.called # << >>
    /\ r.called[Len(r.called)] = Self
    /\ Len(r.results) = Len(r.called) - 1

\* What the plugin's hook returned in the event, if it was called and returned.
OwnReturn(r) ==
    { r.results[k] : k \in { m \in DOMAIN r.results : r.called[m] = Self } }

\* The outcome of an event when the plugin is not present.
AbsentOutcome(r) ==
    /\ r.raised = NoneValue
    /\ r.called = << "other_first", "other" >>
    /\ r.results = << "None", "None" >>
    /\ r.out = << >>

\* The other plugins whose handler of the event asks to run first.
RunFirstOthers(name) == { h.plugin : h \in { o \in OtherImpls(name) : o.tryfirst } }

LoadStep ==
    /\ Len(history') = Len(history) + 1
    /\ history'[Len(history')].op = "load"

EventStep ==
    /\ Len(history') = Len(history) + 1
    /\ history'[Len(history')].op = "event"

RECURSIVE Written(_)
Written(h) == IF h = << >> THEN << >> ELSE Head(h).out \o Written(Tail(h))

TextCount(out, texts) == Cardinality({ k \in DOMAIN out : out[k].text \in texts })

ActivatedText == "Hooks activated (_PYTEST_RAISE is set)."

InactiveText == "Loaded but hooks inactive (_PYTEST_RAISE not set)."

InterceptText(hook) ==
    IF hook = ExcInteract THEN "Intercepting exception interact hook."
                          ELSE "Intercepting internal error hook."

ReraiseText(hook) ==
    IF hook = ExcInteract THEN "Re-raising exception:"
                          ELSE "Re-raising internal error:"

-----------------------------------------------------------------------------
\* C1: in Active mode, an exception-interaction event whose call record carries
\* exception information wrapping E ends with the plugin's hook raising that
\* very object E (same identity), and the hook returns no value.
C1_ExceptionInteractReraisesSameObject ==
    \A i \in Events :
      ( /\ history[i].hook = ExcInteract
        /\ history[i].excinfo # NoneValue
        /\ ActiveLoadBefore(i) )
      => /\ ReraisedBySelf(history[i], history[i].excinfo.value)
         /\ history[i].raised \in ExceptionObjects

C1_Witness ==
    \E i \in Events :
      /\ history[i].hook = ExcInteract
      /\ ActiveLoadBefore(i)
      /\ history[i].excinfo # NoneValue
      /\ history[i].excinfo.value.id = 2
      /\ history[i].raised.id = 2

\* C2: as long as every load found the flag unset or "0", no hook is registered
\* and every host event (exception-interaction with or without exception
\* information, internal-error) has the outcome it has without the plugin:
\* nothing is raised and only the other handlers run.
C2_InactiveIsAbsent ==
    /\ (\A j \in Loads : ~ActiveValue(history[j].environ)) => hooks = {}
    /\ \A i \in Events : ~ActiveLoadBefore(i) => AbsentOutcome(history[i])

C2_Witness ==
    /\ Len(history) = 3
    /\ history[1].op = "load" /\ history[1].environ = NoEnviron
    /\ history[2].op = "event" /\ history[2].hook = ExcInteract
    /\ history[2].excinfo # NoneValue /\ history[2].raised = NoneValue
    /\ history[3].op = "event" /\ history[3].hook = IntError
    /\ history[3].raised = NoneValue

\* C3: in Active mode, every internal-error event ends with the plugin's hook
\* raising the wrapped error X itself; the hook never returns, whatever happened
\* before (in particular whether or not a test exception was captured).
C3_InternalErrorAlwaysReraises ==
    \A i \in Events :
      (history[i].hook = IntError /\ ActiveLoadBefore(i))
      => ReraisedBySelf(history[i], history[i].excinfo.value)

C3_Witness ==
    /\ Len(history) >= 2
    /\ history[1].op = "load" /\ ActiveValue(history[1].environ)
    /\ history[2].op = "event" /\ history[2].hook = IntError
    /\ history[2].raised = [id |-> 3, type |-> "KeyError"]

\* C4: in Active mode, an exception-interaction event whose call record carries
\* no exception makes the plugin's hook raise nothing and return False; the host
\* goes on with the event, and every other handler of it is called.
C4_NoExcinfoNotHandled ==
    \A i \in Events :
      ( /\ history[i].hook = ExcInteract
        /\ history[i].excinfo = NoneValue
        /\ ActiveLoadBefore(i) )
      => /\ history[i].raised = NoneValue
         /\ \E k \in DOMAIN history[i].called :
              /\ history[i].called[k] = Self
              /\ history[i].results[k] = "False"
              /\ \E m \in DOMAIN history[i].called :
                   m > k /\ history[i].called[m] = "other"
         /\ { history[i].called[k] : k \in DOMAIN history[i].called }
              = { h.plugin : h \in OtherImpls(ExcInteract) } \cup {Self}

C4_Witness ==
    \E i \in Events :
      /\ history[i].hook = ExcInteract
      /\ history[i].excinfo = NoneValue
      /\ ActiveLoadBefore(i)
      /\ history[i].called = << Self, "other_first", "other" >>
      /\ history[i].results = << "False", "None", "None" >>

\* C5: the decision of a load depends on the flag alone: the load defines no
\* hook exactly when the flag is unset or "0", and defines both hooks for every
\* other string ("", "00", " 0", "false", "no" included).
C5_ActivationDecision ==
    \A i \in Loads :
      /\ ActiveValue(history[i].environ)
           => { h.name : h \in history[i].defined } = {ExcInteract, IntError}
      /\ ~ActiveValue(history[i].environ) => history[i].defined = {}

C5_Witness ==
    /\ Len(history) = 3
    /\ history[1].op = "load" /\ history[1].environ = SetTo("")
    /\ history[1].defined # {}
    /\ history[2].op = "load" /\ history[2].environ = SetTo("0")
    /\ history[2].defined = {}
    /\ history[3].op = "load" /\ history[3].environ = SetTo("00")
    /\ history[3].defined # {}

\* C6: once loaded, no step other than a load (a hook invocation, the flag being
\* set, unset or changed) changes the registered hooks, and an event's outcome
\* follows the decision taken at load, not the flag's value at the call.
C6_DecisionFrozenAfterLoad ==
    [][ (Loads # {} /\ ~LoadStep)
        => /\ hooks' = hooks
           /\ (EventStep /\ history'[Len(history')].excinfo # NoneValue)
                => ( (history'[Len(history')].raised
                        = history'[Len(history')].excinfo.value)
                     <=> (\E j \in Loads : ActiveValue(history[j].environ)) ) ]_vars

C6_Witness ==
    /\ Len(history) = 2
    /\ history[1].op = "load" /\ history[1].environ = SetTo("1")
    /\ history[2].op = "event" /\ history[2].raised \in ExceptionObjects
    /\ environ \in {NoEnviron, SetTo("0")}
    /\ hooks = {ExceptionInteractImpl, InternalErrorImpl}

C8_EveryQualifyingEventReraised ==
    \A i \in Events :
      ActiveLoadBefore(i)
      => /\ Qualifying(history[i])
              => history[i].raised = history[i].excinfo.value
         /\ ~Qualifying(history[i]) => history[i].raised = NoneValue
         /\ \A j \in Events :
              ( /\ ActiveLoadBefore(j)
                /\ history[j].hook = history[i].hook
                /\ history[j].excinfo = history[i].excinfo )
              => /\ history[j].raised = history[i].raised
                 /\ OwnReturn(history[j]) = OwnReturn(history[i])

C8_Witness ==
    /\ Len(history) = 3
    /\ history[1].op = "load" /\ ActiveValue(history[1].environ)
    /\ history[2].op = "event" /\ history[2].raised \in ExceptionObjects
    /\ history[3].op = "event" /\ history[3].hook = ExcInteract
    /\ history[3].excinfo = history[2].excinfo
    /\ history[3].raised = history[2].raised

C10_DiagnosticsAgreeWithActions ==
    /\ stderr = Written(history)
    /\ \A i \in Loads :
         /\ TextCount(history[i].out, {ActivatedText, InactiveText}) = 1
         /\ TextCount(history[i].out, {ActivatedText}) = 1
              <=> history[i].defined # {}
    /\ \A i \in Events :
         IF \E k \in DOMAIN history[i].called : history[i].called[k] = Self
           THEN /\ history[i].out # << >>
                /\ history[i].out[1].text = InterceptText(history[i].hook)
                /\ IF history[i].raised # NoneValue
                     THEN /\ Len(history[i].out) = 2
                          /\ history[i].out[2].text = ReraiseText(history[i].hook)
                          /\ history[i].out[2].arg = history[i].raised.type
                     ELSE TextCount(history[i].out,
                                    {ReraiseText(ExcInteract), ReraiseText(IntError)}) = 0
           ELSE history[i].out = << >>

C10_Witness ==
    /\ Len(history) = 3
    /\ history[1].op = "load" /\ history[1].defined # {}
    /\ history[2].op = "event" /\ history[2].hook = ExcInteract
    /\ history[2].excinfo = NoneValue /\ Len(history[2].out) = 1
    /\ history[3].op = "event" /\ history[3].hook = IntError
    /\ history[3].out[2].arg = "KeyError"
    /\ Len(stderr) = 6

====
